---- MODULE Spec2Model ----
(***************************************************************************)
(* Model of the NSAI validation core of zotero-nesy:                       *)
(*   TractarianValidator      (src/src/validation/validator.test.ts,       *)
(*                             lines 299-790 hold validator.ts)            *)
(*   FogbinderHandoffManager  (src/unnamed/part_003, lines 122-622 hold    *)
(*                             fogbinder/handoff.ts)                       *)
(*                                                                         *)
(* Conventions.                                                            *)
(*  - A JavaScript string is a sequence of one-character strings, so that  *)
(*    trimming, case folding and the regular expressions are computed.     *)
(*  - An optional property is <<>> when it is undefined and <<v>> when it  *)
(*    holds v.                                                             *)
(*  - Scores are kept in hundredths (0..100); the arithmetic is exact      *)
(*    rational arithmetic and Math.round rounds half up.                   *)
(*  - The text of an issue message is the fixed part of its template; the  *)
(*    interpolated values (a date, a year) are digits or user data placed  *)
(*    after a prefix that already decides String.includes('Invalid').      *)
(***************************************************************************)
EXTENDS Integers, Sequences, FiniteSets, TLC

VARIABLES config, request, citations, relationships, results, payload, pc, now

vars == <<config, request, citations, relationships, results, payload, pc, now>>

(***************************************************************************)
(* Bounds of the model.                                                    *)
(***************************************************************************)
MaxBatch == 3

MaxSummaryBatch == 44

(***************************************************************************)
(* JavaScript strings.                                                     *)
(***************************************************************************)
None == <<>>

Some(v) == <<v>>

IsPresent(opt) == opt # <<>>

Digits == <<"0", "1", "2", "3", "4", "5", "6", "7", "8", "9">>

UpperCase == <<"A", "B", "C", "D", "E", "F", "G", "H", "I", "J", "K", "L", "M",
               "N", "O", "P", "Q", "R", "S", "T", "U", "V", "W", "X", "Y", "Z">>

LowerCase == <<"a", "b", "c", "d", "e", "f", "g", "h", "i", "j", "k", "l", "m",
               "n", "o", "p", "q", "r", "s", "t", "u", "v", "w", "x", "y", "z">>

Range(s) == {s[i] : i \in DOMAIN s}

IsDigit(ch) == ch \in Range(Digits)

IsUpper(ch) == ch \in Range(UpperCase)

IsLetter(ch) == ch \in Range(UpperCase) \cup Range(LowerCase)

IsSpace(ch) == ch \in {" ", "\t", "\n"}

DigitVal(ch) == (CHOOSE i \in DOMAIN Digits : Digits[i] = ch) - 1

AllDigits(s) == \A i \in DOMAIN s : IsDigit(s[i])

Substring(s, from, to) == [i \in 1..(to - from + 1) |-> s[from + i - 1]]

(* String.prototype.substring(0, n) *)
Prefix(s, n) == Substring(s, 1, IF Len(s) < n THEN Len(s) ELSE n)

toLowerCaseChar(ch) ==
    IF IsUpper(ch) THEN LowerCase[CHOOSE i \in DOMAIN UpperCase : UpperCase[i] = ch]
    ELSE ch

toLowerCase(s) == [i \in DOMAIN s |-> toLowerCaseChar(s[i])]

trim(s) ==
    LET nonSpace == {i \in DOMAIN s : ~IsSpace(s[i])}
    IN  IF nonSpace = {} THEN <<>>
        ELSE LET first == CHOOSE i \in nonSpace : \A j \in nonSpace : i <= j
                 last  == CHOOSE i \in nonSpace : \A j \in nonSpace : j <= i
             IN  Substring(s, first, last)

RECURSIVE removeChars(_, _)
removeChars(s, drop) ==
    IF s = <<>> THEN <<>>
    ELSE IF s[1] \in drop THEN removeChars(Tail(s), drop)
    ELSE <<s[1]>> \o removeChars(Tail(s), drop)

stripSpaces(s) == removeChars(s, {" ", "\t", "\n"})

stripHyphensSpaces(s) == removeChars(s, {"-", " ", "\t", "\n"})

(* parseInt: the value of the longest prefix of decimal digits, NaN when   *)
(* there is none.  Every comparison with NaN is false and NaN is falsy.    *)
NaN == -1

parseInt(s) ==
    LET RECURSIVE val(_, _)
        val(rest, acc) == IF rest = <<>> \/ ~IsDigit(rest[1]) THEN acc
                          ELSE val(Tail(rest), acc * 10 + DigitVal(rest[1]))
    IN  IF s = <<>> \/ ~IsDigit(s[1]) THEN NaN ELSE val(s, 0)

RECURSIVE join(_, _)
join(strs, sep) ==
    IF strs = <<>> THEN <<>>
    ELSE IF Len(strs) = 1 THEN strs[1]
    ELSE strs[1] \o sep \o join(Tail(strs), sep)

(***************************************************************************)
(* The regular expressions of the validator.                               *)
(***************************************************************************)
datePattern(s) ==
    /\ Len(s) \in {4, 7, 10}
    /\ AllDigits(Substring(s, 1, 4))
    /\ Len(s) >= 7 => (s[5] = "-" /\ AllDigits(Substring(s, 6, 7)))
    /\ Len(s) = 10 => (s[8] = "-" /\ AllDigits(Substring(s, 9, 10)))

pagesPattern(s) ==
    LET hyphens == {i \in DOMAIN s : s[i] = "-"}
    IN  \/ (Len(s) >= 1 /\ AllDigits(s))
        \/ \E h \in hyphens :
              /\ h > 1 /\ h < Len(s)
              /\ AllDigits(Substring(s, 1, h - 1))
              /\ AllDigits(Substring(s, h + 1, Len(s)))

doiPattern(s) ==
    /\ Len(s) >= 3
    /\ s[1] = "1" /\ s[2] = "0" /\ s[3] = "."
    /\ LET run == {n \in 0..(Len(s) - 3) : AllDigits(Substring(s, 4, 3 + n))}
           n   == CHOOSE m \in run : \A k \in run : k <= m
       IN  /\ n >= 4
           /\ Len(s) > 4 + n
           /\ s[4 + n] = "/"
           /\ \A i \in (5 + n)..Len(s) : ~IsSpace(s[i])

SpecialSchemes == {<<"h", "t", "t", "p">>, <<"h", "t", "t", "p", "s">>,
                   <<"f", "t", "p">>, <<"w", "s">>, <<"w", "s", "s">>}

urlParses(s) ==
    LET colons == {i \in DOMAIN s : s[i] = ":"}
    IN  /\ colons # {}
        /\ LET c      == CHOOSE i \in colons : \A j \in colons : i <= j
               scheme == toLowerCase(Substring(s, 1, c - 1))
               rest   == removeChars(Substring(s, c + 1, Len(s)), {"/"})
           IN  /\ c > 1
               /\ IsLetter(s[1])
               /\ \A i \in 2..(c - 1) : IsLetter(s[i]) \/ IsDigit(s[i]) \/ s[i] \in {"+", "-", "."}
               /\ scheme \in SpecialSchemes => rest # <<>>

(***************************************************************************)
(* Configuration of the validator.                                         *)
(***************************************************************************)
DEFAULT_CONFIG ==
    [strictness |-> "standard", fogbinderThreshold |-> 70,
     requirePersistentIdentifiers |-> FALSE, minimumValidCertainty |-> 0]

STRICTNESS_PRESETS ==
    [strict   |-> [strictness |-> None, requirePersistentIdentifiers |-> Some(TRUE),
                   fogbinderThreshold |-> Some(80), minimumValidCertainty |-> Some(50)],
     standard |-> [strictness |-> None, requirePersistentIdentifiers |-> Some(FALSE),
                   fogbinderThreshold |-> Some(70), minimumValidCertainty |-> Some(0)],
     lenient  |-> [strictness |-> None, requirePersistentIdentifiers |-> Some(FALSE),
                   fogbinderThreshold |-> Some(50), minimumValidCertainty |-> Some(0)]]

ConfigFields == {"strictness", "fogbinderThreshold", "requirePersistentIdentifiers",
                 "minimumValidCertainty"}

EmptyPartial == [f \in ConfigFields |-> None]

Spread(base, partial) ==
    [f \in ConfigFields |-> IF IsPresent(partial[f]) THEN partial[f][1] ELSE base[f]]

Constructor(partial) ==
    LET strictness == IF IsPresent(partial.strictness) THEN partial.strictness[1]
                      ELSE DEFAULT_CONFIG.strictness
        preset     == STRICTNESS_PRESETS[strictness]
    IN  Spread(Spread(DEFAULT_CONFIG, preset), partial)

(* variant: the preset is spread after the caller's fields *)
setConfig_PresetLast(cfg, partial) ==
    IF IsPresent(partial.strictness) /\ partial.strictness[1] # cfg.strictness
    THEN Spread(Spread(cfg, partial), STRICTNESS_PRESETS[partial.strictness[1]])
    ELSE Spread(cfg, partial)

setConfig(cfg, partial) ==
    IF IsPresent(partial.strictness) /\ partial.strictness[1] # cfg.strictness
    THEN Spread(Spread(cfg, STRICTNESS_PRESETS[partial.strictness[1]]), partial)
    ELSE Spread(cfg, partial)

(* getConfig returns a copy: { ...this.config } *)
getConfig(cfg) == [f \in DOMAIN cfg |-> cfg[f]]

(* the most recent call that wrote the configuration, and its argument *)
Request(call, partial) == [call |-> call, partial |-> partial]

(***************************************************************************)
(* Required fields by item type.                                           *)
(***************************************************************************)
ItemTypes == {"book", "bookSection", "journalArticle", "conferencePaper", "thesis",
              "webpage", "manuscript", "report", "patent"}

REQUIRED_FIELDS(itemType) ==
    CASE itemType = "book"            -> <<"title", "creators", "publisher", "date">>
      [] itemType = "bookSection"     -> <<"title", "creators", "publicationTitle", "date">>
      [] itemType = "journalArticle"  -> <<"title", "creators", "publicationTitle", "date">>
      [] itemType = "conferencePaper" -> <<"title", "creators", "date">>
      [] itemType = "thesis"          -> <<"title", "creators", "date">>
      [] itemType = "webpage"         -> <<"title", "url", "date">>
      [] itemType = "manuscript"      -> <<"title", "creators">>
      [] itemType = "report"          -> <<"title", "creators", "date">>
      [] itemType = "patent"          -> <<"title", "creators", "date">>
      [] OTHER                        -> <<>>

(***************************************************************************)
(* JavaScript truthiness of an optional string or array property.          *)
(*   !value                 : undefined, or the empty string               *)
(*   Array.isArray(value)   : only creators is array-valued                *)
(***************************************************************************)
IsArrayField(field) == field = "creators"

Falsy(field, value) ==
    \/ ~IsPresent(value)
    \/ (~IsArrayField(field) /\ value[1] = <<>>)

Truthy(field, value) == ~Falsy(field, value)

IsMissing(citation, field) ==
    LET value == citation[field]
    IN  \/ Falsy(field, value)
        \/ (IsArrayField(field) /\ Len(value[1]) = 0)

Issue(severity, field, message, nav) ==
    [severity |-> severity, field |-> field, message |-> message,
     requiresUncertaintyNavigation |-> nav]

RequiredMessage(field) ==
    CASE field = "title"            -> "Required field \"title\" is missing"
      [] field = "creators"         -> "Required field \"creators\" is missing"
      [] field = "publisher"        -> "Required field \"publisher\" is missing"
      [] field = "publicationTitle" -> "Required field \"publicationTitle\" is missing"
      [] field = "date"             -> "Required field \"date\" is missing"
      [] field = "url"              -> "Required field \"url\" is missing"

RECURSIVE requiredIssues(_, _)
requiredIssues(citation, required) ==
    IF required = <<>> THEN <<>>
    ELSE (IF IsMissing(citation, required[1])
          THEN <<Issue("error", required[1], RequiredMessage(required[1]), FALSE)>>
          ELSE <<>>)
         \o requiredIssues(citation, Tail(required))

validateStructure(citation) ==
    requiredIssues(citation, REQUIRED_FIELDS(citation.itemType))
    \o (IF ~IsPresent(citation.creators) \/ Len(citation.creators[1]) = 0
        THEN <<Issue("error", "creators", "Citation must have at least one creator", FALSE)>>
        ELSE <<>>)
    \o (IF Falsy("title", citation.title) \/ Len(trim(citation.title[1])) = 0
        THEN <<Issue("error", "title", "Title cannot be empty", FALSE)>>
        ELSE <<>>)

(***************************************************************************)
(* validateConsistency iterates citation.creators without a guard: when    *)
(* the property is undefined the for-of loop raises a TypeError.           *)
(***************************************************************************)
consistencyThrows(citation) == ~IsPresent(citation.creators)

dateIssues(citation) ==
    IF Truthy("date", citation.date)
    THEN IF ~datePattern(citation.date[1])
         THEN <<Issue("error", "date", "Invalid date format", FALSE)>>
         ELSE LET year == parseInt(Prefix(citation.date[1], 4))
              IN  IF year # NaN /\ (year < 1000 \/ year > 2100)
                  THEN <<Issue("warning", "date", "Unusual publication year", TRUE)>>
                  ELSE <<>>
    ELSE <<>>

RECURSIVE creatorIssues(_)
creatorIssues(creators) ==
    IF creators = <<>> THEN <<>>
    ELSE (IF creators[1].lastName = <<>> \/ Len(trim(creators[1].lastName)) = 0
          THEN <<Issue("error", "creators", "Creator missing lastName", FALSE)>>
          ELSE <<>>)
         \o creatorIssues(Tail(creators))

urlIssues(citation) ==
    IF Truthy("url", citation.url) /\ ~urlParses(citation.url[1])
    THEN <<Issue("error", "url", "Invalid URL format", FALSE)>>
    ELSE <<>>

pagesIssues(citation) ==
    IF Truthy("pages", citation.pages) /\ ~pagesPattern(stripSpaces(citation.pages[1]))
    THEN <<Issue("warning", "pages", "Unusual page format", FALSE)>>
    ELSE <<>>

validateConsistency(citation) ==
    dateIssues(citation)
    \o creatorIssues(citation.creators[1])
    \o urlIssues(citation)
    \o pagesIssues(citation)

(* variant: a missing identifier is an error whatever the configuration *)
validateReferences_AlwaysRequired(citation, cfg) ==
    (IF Truthy("DOI", citation.DOI) /\ ~doiPattern(citation.DOI[1])
     THEN <<Issue("warning", "DOI", "DOI format may be invalid", FALSE)>>
     ELSE <<>>)
    \o (IF Truthy("ISBN", citation.ISBN)
           /\ Len(stripHyphensSpaces(citation.ISBN[1])) \notin {10, 13}
        THEN <<Issue("warning", "ISBN", "ISBN should be 10 or 13 digits", FALSE)>>
        ELSE <<>>)
    \o (IF /\ Falsy("DOI", citation.DOI) /\ Falsy("ISBN", citation.ISBN)
           /\ Falsy("url", citation.url)
           /\ citation.itemType # "manuscript"
        THEN <<Issue("error", "identifiers",
                     "No persistent identifier (DOI, ISBN, or URL)", TRUE)>>
        ELSE <<>>)

validateReferences(citation, cfg) ==
    (IF Truthy("DOI", citation.DOI) /\ ~doiPattern(citation.DOI[1])
     THEN <<Issue("warning", "DOI", "DOI format may be invalid", FALSE)>>
     ELSE <<>>)
    \o (IF Truthy("ISBN", citation.ISBN)
           /\ Len(stripHyphensSpaces(citation.ISBN[1])) \notin {10, 13}
        THEN <<Issue("warning", "ISBN", "ISBN should be 10 or 13 digits", FALSE)>>
        ELSE <<>>)
    \o (IF /\ Falsy("DOI", citation.DOI) /\ Falsy("ISBN", citation.ISBN)
           /\ Falsy("url", citation.url)
           /\ citation.itemType # "manuscript"
        THEN <<Issue(IF cfg.requirePersistentIdentifiers THEN "error" ELSE "warning",
                     "identifiers", "No persistent identifier (DOI, ISBN, or URL)",
                     cfg.requirePersistentIdentifiers)>>
        ELSE <<>>)

(***************************************************************************)
(* message.includes('Invalid') || message.includes('inconsistent'), on the *)
(* messages the validator can produce.                                     *)
(***************************************************************************)
IsConsistencyMessage(message) ==
    message \in {"Invalid date format", "Invalid URL format"}

IsError(issue) == issue.severity = "error"

RequiresNavigation(issue) == issue.requiresUncertaintyNavigation

(* variant: only the consistency errors are looked at *)
determineState_ConsistencyOnly(issues) ==
    LET errors            == SelectSeq(issues, IsError)
        uncertainties     == SelectSeq(issues, RequiresNavigation)
        IsConsistencyError(e) == IsConsistencyMessage(e.message)
        consistencyErrors == SelectSeq(errors, IsConsistencyError)
    IN  IF Len(consistencyErrors) > 0 THEN "INCONSISTENT"
        ELSE IF Len(uncertainties) > 0 THEN "UNCERTAIN"
        ELSE "VALID"

(* variant: the exploration flags are looked at before the errors *)
determineState_UncertaintyFirst(issues) ==
    LET errors            == SelectSeq(issues, IsError)
        uncertainties     == SelectSeq(issues, RequiresNavigation)
        IsConsistencyError(e) == IsConsistencyMessage(e.message)
        consistencyErrors == SelectSeq(errors, IsConsistencyError)
    IN  IF Len(uncertainties) > 0 THEN "UNCERTAIN"
        ELSE IF Len(errors) > 0
        THEN IF Len(consistencyErrors) > 0 THEN "INCONSISTENT" ELSE "INCOMPLETE"
        ELSE "VALID"

determineState(issues) ==
    LET errors            == SelectSeq(issues, IsError)
        uncertainties     == SelectSeq(issues, RequiresNavigation)
        IsConsistencyError(e) == IsConsistencyMessage(e.message)
        consistencyErrors == SelectSeq(errors, IsConsistencyError)
    IN  IF Len(errors) > 0
        THEN IF Len(consistencyErrors) > 0 THEN "INCONSISTENT" ELSE "INCOMPLETE"
        ELSE IF Len(uncertainties) > 0 THEN "UNCERTAIN"
        ELSE "VALID"

(***************************************************************************)
(* Math.round(x * 100) for x = num / den >= 0, in hundredths.              *)
(***************************************************************************)
Round100(num, den) == (200 * num + den) \div (2 * den)

Min(a, b) == IF a <= b THEN a ELSE b

Max(a, b) == IF a >= b THEN a ELSE b

(* variant: the cap Math.min(referential, 1.0) is forgotten *)
referentialTenths_Uncapped(citation) ==
    5 + (IF Truthy("DOI", citation.DOI) THEN 3 ELSE 0)
      + (IF Truthy("ISBN", citation.ISBN) THEN 2 ELSE 0)
      + (IF Truthy("url", citation.url) THEN 1 ELSE 0)

(* variant: the DOI bonus is assigned (= 0.3) instead of added (+= 0.3) *)
referentialTenths_DoiAssigned(citation) ==
    Min((IF Truthy("DOI", citation.DOI) THEN 3 ELSE 5)
          + (IF Truthy("ISBN", citation.ISBN) THEN 2 ELSE 0)
          + (IF Truthy("url", citation.url) THEN 1 ELSE 0),
        10)

(* variant: the baseline 0.5 is forgotten *)
referentialTenths_NoBaseline(citation) ==
    Min((IF Truthy("DOI", citation.DOI) THEN 3 ELSE 0)
          + (IF Truthy("ISBN", citation.ISBN) THEN 2 ELSE 0)
          + (IF Truthy("url", citation.url) THEN 1 ELSE 0),
        10)

(* referential, in tenths: 0.5 base, +0.3 DOI, +0.2 ISBN, +0.1 url, capped *)
referentialTenths(citation) ==
    Min(5 + (IF Truthy("DOI", citation.DOI) THEN 3 ELSE 0)
          + (IF Truthy("ISBN", citation.ISBN) THEN 2 ELSE 0)
          + (IF Truthy("url", citation.url) THEN 1 ELSE 0),
        10)

generateCertaintyReasoning(p, r, e, t, refTenths, issues) ==
    [structural  |-> IF 10 * p >= 9 * r THEN "Structurally complete"
                     ELSE IF 10 * p >= 7 * r THEN "Mostly complete structure"
                     ELSE "Missing required fields",
     consistency |-> IF 10 * (t - e) >= 9 * t THEN "internally consistent"
                     ELSE IF 10 * (t - e) >= 7 * t THEN "minor inconsistencies"
                     ELSE "significant inconsistencies",
     referential |-> IF refTenths >= 8 THEN "strong referential integrity"
                     ELSE IF refTenths >= 5 THEN "some referential identifiers"
                     ELSE "weak referential integrity",
     uncertainties |-> Len(SelectSeq(issues, RequiresNavigation))]

calculateCertainty(citation, issues) ==
    LET required == REQUIRED_FIELDS(citation.itemType)
        IsPresentField(f) == ~IsMissing(citation, f)
        r   == Len(required)
        p   == IF r > 0 THEN Len(SelectSeq(required, IsPresentField)) ELSE 1
        rr  == IF r > 0 THEN r ELSE 1
        e   == Len(SelectSeq(issues, IsError))
        t   == Len(issues) + 10
        ref == referentialTenths(citation)
    IN  [score   |-> Round100(50 * p * t + 30 * (t - e) * rr + 2 * ref * rr * t,
                              100 * rr * t),
         factors |-> [structural  |-> Round100(p, rr),
                      consistency |-> Round100(t - e, t),
                      referential |-> Round100(ref, 10)],
         reasoning |-> generateCertaintyReasoning(p, rr, e, t, ref, issues)]

(***************************************************************************)
(* validate: the result, or the record of a thrown TypeError.              *)
(***************************************************************************)
NoCertainty ==
    [score |-> 0, factors |-> [structural |-> 0, consistency |-> 0, referential |-> 0],
     reasoning |-> [structural |-> "", consistency |-> "", referential |-> "",
                    uncertainties |-> 0]]

Thrown(citation) ==
    [threw |-> TRUE, citation |-> citation, state |-> "none",
     certainty |-> NoCertainty, issues |-> <<>>]

(* variant: the title of the record is trimmed in place before the checks *)
validate_NormalizesTitle(citation, cfg) ==
    LET normalized == IF IsPresent(citation.title)
                      THEN [citation EXCEPT !.title = Some(trim(citation.title[1]))]
                      ELSE citation
    IN  IF consistencyThrows(normalized) THEN Thrown(normalized)
        ELSE LET issues == validateStructure(normalized)
                           \o validateConsistency(normalized)
                           \o validateReferences(normalized, cfg)
             IN  [threw |-> FALSE, citation |-> normalized,
                  state |-> determineState(issues),
                  certainty |-> calculateCertainty(normalized, issues),
                  issues |-> issues]

validate(citation, cfg) ==
    IF consistencyThrows(citation) THEN Thrown(citation)
    ELSE LET issues == validateStructure(citation)
                       \o validateConsistency(citation)
                       \o validateReferences(citation, cfg)
         IN  [threw |-> FALSE, citation |-> citation,
              state |-> determineState(issues),
              certainty |-> calculateCertainty(citation, issues),
              issues |-> issues]

(***************************************************************************)
(* FogbinderHandoffManager.                                                *)
(***************************************************************************)
CERTAINTY_THRESHOLDS == [HIGH |-> 70, MEDIUM |-> 40, LOW |-> 40]

RECURSIVE ConcatAll(_)
ConcatAll(seqs) ==
    IF seqs = <<>> THEN <<>>
    ELSE IF Len(seqs) = 1 THEN seqs[1]
    ELSE LET half == Len(seqs) \div 2
         IN  ConcatAll(SubSeq(seqs, 1, half))
             \o ConcatAll(SubSeq(seqs, half + 1, Len(seqs)))

createValidatedCitation(result) ==
    [citation |-> result.citation,
     validationResult |-> result,
     certainty |-> result.certainty.score,
     certainties |->
        (IF result.certainty.factors.structural >= 90
         THEN <<"Structurally complete">> ELSE <<>>)
        \o (IF result.certainty.factors.consistency >= 90
            THEN <<"Internally consistent">> ELSE <<>>)
        \o (IF result.certainty.factors.referential >= 70
            THEN <<"Has persistent identifier">> ELSE <<>>)
        \o (IF Truthy("DOI", result.citation.DOI) THEN <<"DOI">> ELSE <<>>)]

createInvalidCitation(result) ==
    LET uncertainIssues == SelectSeq(result.issues, RequiresNavigation)
    IN  [citation |-> result.citation,
         validationResult |-> result,
         reason |-> [state |-> result.state,
                     message |-> IF Len(result.issues) > 0
                                 THEN Some(result.issues[1].message) ELSE None],
         uncertainties |->
            [i \in DOMAIN uncertainIssues |-> uncertainIssues[i].message]
            \o (IF result.certainty.score < CERTAINTY_THRESHOLDS.LOW
                THEN <<"Low confidence in validation">> ELSE <<>>)
            \o (IF result.state = "UNCERTAIN"
                THEN <<"Contains ambiguities">> ELSE <<>>)]

CitationIds(rs) == [i \in DOMAIN rs |-> rs[i].citation.id]

(* Array.from(new Set(...)): the distinct elements in first-insertion order *)
RECURSIVE Distinct(_)
Distinct(xs) ==
    IF xs = <<>> THEN <<>>
    ELSE LET init == Distinct(SubSeq(xs, 1, Len(xs) - 1))
             x    == xs[Len(xs)]
         IN  IF x \in Range(init) THEN init ELSE Append(init, x)

IsContradiction(rel) == rel.isContradiction

identifyUncertaintyRegions(rs, relations, currentYear) ==
    LET LacksIds(r) == /\ Falsy("DOI", r.citation.DOI)
                       /\ Falsy("ISBN", r.citation.ISBN)
                       /\ Falsy("url", r.citation.url)
        noPersistentId == SelectSeq(rs, LacksIds)
        TemporalUncertain(r) ==
            /\ Truthy("date", r.citation.date)
            /\ LET year == parseInt(Prefix(r.citation.date[1], 4))
               IN  /\ year # NaN /\ year # 0
                   /\ (year < 1800 \/ year > currentYear)
        temporalUncertain == SelectSeq(rs, TemporalUncertain)
        LowScore(r) == r.certainty.score < CERTAINTY_THRESHOLDS.LOW
        lowCertainty == SelectSeq(rs, LowScore)
        contradictoryRelations ==
            IF IsPresent(relations) THEN SelectSeq(relations[1], IsContradiction)
            ELSE <<>>
        involvedIds ==
            Distinct(ConcatAll([i \in DOMAIN contradictoryRelations |->
                        <<contradictoryRelations[i].source,
                          contradictoryRelations[i].target>>]))
    IN  (IF Len(noPersistentId) > 0
         THEN <<[id |-> "no-persistent-identifiers", type |-> "structural",
                 citationIds |-> CitationIds(noPersistentId),
                 count |-> Len(noPersistentId),
                 suggestedExploration |-> {"useMysteryClustering"},
                 uncertaintyLevel |-> 60]>>
         ELSE <<>>)
        \o (IF Len(temporalUncertain) > 0
            THEN <<[id |-> "temporal-uncertainties", type |-> "temporal",
                    citationIds |-> CitationIds(temporalUncertain),
                    count |-> Len(temporalUncertain),
                    suggestedExploration |-> {"useMoodScoring", "useFogTrailVisualization"},
                    uncertaintyLevel |-> 50]>>
            ELSE <<>>)
        \o (IF Len(lowCertainty) > 0
            THEN <<[id |-> "low-certainty-region", type |-> "semantic",
                    citationIds |-> CitationIds(lowCertainty),
                    count |-> Len(lowCertainty),
                    suggestedExploration |->
                        {"useContradictionDetection", "useMoodScoring",
                         "useMysteryClustering", "useFogTrailVisualization"},
                    uncertaintyLevel |-> 80]>>
            ELSE <<>>)
        \o (IF Len(contradictoryRelations) > 0
            THEN <<[id |-> "contradictory-relations", type |-> "relational",
                    citationIds |-> involvedIds,
                    count |-> Len(involvedIds),
                    suggestedExploration |->
                        {"useContradictionDetection", "useFogTrailVisualization"},
                    uncertaintyLevel |-> 90]>>
            ELSE <<>>)

(***************************************************************************)
(* detectContradictions.  A Map keeps its keys in first-insertion order.   *)
(***************************************************************************)
Hint(a, b, type, confidence, semantic) ==
    [citationA |-> a, citationB |-> b, type |-> type, confidence |-> confidence,
     requiresSemanticAnalysis |-> semantic]

lastNames(r) ==
    join([i \in DOMAIN r.citation.creators[1] |-> r.citation.creators[1][i].lastName],
         <<",">>)

titleKey(r) == trim(toLowerCase(r.citation.title[1]))

authorTitleKey(r) == lastNames(r) \o <<":", ":">> \o toLowerCase(r.citation.title[1])

(* the pairs (i, j), i < j, of a group in the order of the nested loops *)
PairsOf(group) ==
    ConcatAll([i \in DOMAIN group |->
        [k \in 1..(Len(group) - i) |-> <<group[i], group[i + k]>>]])

authorshipHints(rs) ==
    LET keys == Distinct([i \in DOMAIN rs |-> titleKey(rs[i])])
        EmitAuthorship(a, b) ==
            IF lastNames(a) # lastNames(b)
            THEN <<Hint(a.citation.id, b.citation.id, "authorship", 70, TRUE)>>
            ELSE <<>>
        GroupHints(key) ==
            LET InGroup(r) == titleKey(r) = key
                group == SelectSeq(rs, InGroup)
                pairs == PairsOf(group)
            IN  IF Len(group) > 1
                THEN ConcatAll([p \in DOMAIN pairs |->
                                  EmitAuthorship(pairs[p][1], pairs[p][2])])
                ELSE <<>>
    IN  ConcatAll([k \in DOMAIN keys |-> GroupHints(keys[k])])

yearOf(r) ==
    IF IsPresent(r.citation.date) THEN Some(Prefix(r.citation.date[1], 4)) ELSE None

temporalHints(rs) ==
    LET keys == Distinct([i \in DOMAIN rs |-> authorTitleKey(rs[i])])
        EmitTemporal(a, b) ==
            <<Hint(a.citation.id, b.citation.id, "temporal", 80, FALSE)>>
        GroupHints(key) ==
            LET InGroup(r) == authorTitleKey(r) = key
                group == SelectSeq(rs, InGroup)
                years == {yearOf(group[i])[1] :
                            i \in {j \in DOMAIN group :
                                     /\ IsPresent(yearOf(group[j]))
                                     /\ yearOf(group[j])[1] # <<>>}}
            IN  IF Len(group) > 1 /\ Cardinality(years) > 1
                THEN LET pairs == PairsOf(group)
                     IN  ConcatAll([p \in DOMAIN pairs |->
                                      EmitTemporal(pairs[p][1], pairs[p][2])])
                ELSE <<>>
    IN  ConcatAll([k \in DOMAIN keys |-> GroupHints(keys[k])])

relationHints(relations) ==
    IF IsPresent(relations)
    THEN LET contradictory == SelectSeq(relations[1], IsContradiction)
         IN  [i \in DOMAIN contradictory |->
                Hint(contradictory[i].source, contradictory[i].target,
                     "semantic-hint", contradictory[i].confidence, TRUE)]
    ELSE <<>>

detectContradictions(rs, relations) ==
    authorshipHints(rs) \o temporalHints(rs) \o relationHints(relations)

(* title.toLowerCase() and creators.map() raise a TypeError on undefined *)
detectContradictionsThrows(rs) ==
    \E i \in DOMAIN rs :
        \/ ~IsPresent(rs[i].citation.title)
        \/ ~IsPresent(rs[i].citation.creators)

IsValidated(r) ==
    r.certainty.score >= CERTAINTY_THRESHOLDS.HIGH /\ r.state = "VALID"

(* variant: the summary counts by score alone, whatever the state *)
createEpistemicSummary_CountsByScore(rs, uncertaintyRegions) ==
    LET totalCitations == Len(rs)
        ScoresHigh(r)  == r.certainty.score >= CERTAINTY_THRESHOLDS.HIGH
        validatedCount == Len(SelectSeq(rs, ScoresHigh))
        uncertainCount == totalCitations - validatedCount
        denom          == Max(totalCitations, 1)
        IsIncomplete(r) == r.state = "INCOMPLETE"
        incompleteMetadata == Len(SelectSeq(rs, IsIncomplete))
        LacksDoiIsbn(r) == Falsy("DOI", r.citation.DOI) /\ Falsy("ISBN", r.citation.ISBN)
        noPersistentId == Len(SelectSeq(rs, LacksDoiIsbn))
        IsHigh(region) == region.uncertaintyLevel > 70
        highUncertainty == Len(SelectSeq(uncertaintyRegions, IsHigh))
    IN  [totalCitations |-> totalCitations,
         validatedCount |-> validatedCount,
         uncertainCount |-> uncertainCount,
         overallCertainty |-> Round100(validatedCount, denom),
         epistemicGaps |->
            (IF incompleteMetadata > 0
             THEN <<[type |-> "incomplete-metadata",
                     severity |-> IF 10 * incompleteMetadata > 3 * totalCitations
                                  THEN "high" ELSE "medium",
                     count |-> incompleteMetadata,
                     explorableInFogbinder |-> FALSE]>>
             ELSE <<>>)
            \o (IF 2 * noPersistentId > totalCitations
                THEN <<[type |-> "missing-citations", severity |-> "medium",
                        count |-> noPersistentId,
                        explorableInFogbinder |-> TRUE]>>
                ELSE <<>>)
            \o (IF highUncertainty > 0
                THEN <<[type |-> "ambiguous-sources", severity |-> "high",
                        count |-> highUncertainty,
                        explorableInFogbinder |-> TRUE]>>
                ELSE <<>>),
         recommendation |->
            IF 10 * validatedCount >= 8 * denom THEN "well-structured"
            ELSE IF 10 * validatedCount >= 5 * denom THEN "needs improvement"
            ELSE "requires significant work"]

createEpistemicSummary(rs, uncertaintyRegions) ==
    LET totalCitations == Len(rs)
        validatedCount == Len(SelectSeq(rs, IsValidated))
        uncertainCount == totalCitations - validatedCount
        denom          == Max(totalCitations, 1)
        IsIncomplete(r) == r.state = "INCOMPLETE"
        incompleteMetadata == Len(SelectSeq(rs, IsIncomplete))
        LacksDoiIsbn(r) == Falsy("DOI", r.citation.DOI) /\ Falsy("ISBN", r.citation.ISBN)
        noPersistentId == Len(SelectSeq(rs, LacksDoiIsbn))
        IsHigh(region) == region.uncertaintyLevel > 70
        highUncertainty == Len(SelectSeq(uncertaintyRegions, IsHigh))
    IN  [totalCitations |-> totalCitations,
         validatedCount |-> validatedCount,
         uncertainCount |-> uncertainCount,
         overallCertainty |-> Round100(validatedCount, denom),
         epistemicGaps |->
            (IF incompleteMetadata > 0
             THEN <<[type |-> "incomplete-metadata",
                     severity |-> IF 10 * incompleteMetadata > 3 * totalCitations
                                  THEN "high" ELSE "medium",
                     count |-> incompleteMetadata,
                     explorableInFogbinder |-> FALSE]>>
             ELSE <<>>)
            \o (IF 2 * noPersistentId > totalCitations
                THEN <<[type |-> "missing-citations", severity |-> "medium",
                        count |-> noPersistentId,
                        explorableInFogbinder |-> TRUE]>>
                ELSE <<>>)
            \o (IF highUncertainty > 0
                THEN <<[type |-> "ambiguous-sources", severity |-> "high",
                        count |-> highUncertainty,
                        explorableInFogbinder |-> TRUE]>>
                ELSE <<>>),
         recommendation |->
            IF 10 * validatedCount >= 8 * denom THEN "well-structured"
            ELSE IF 10 * validatedCount >= 5 * denom THEN "needs improvement"
            ELSE "requires significant work"]

NoPayload ==
    [built |-> FALSE, version |-> "", validatedCitations |-> <<>>,
     invalidCitations |-> <<>>, uncertaintyRegions |-> <<>>,
     contradictionHints |-> <<>>, epistemicSummary |-> <<>>]

createPayload(rs, relations, currentYear) ==
    LET NotValidated(r) == ~IsValidated(r)
        validated == SelectSeq(rs, IsValidated)
        invalid   == SelectSeq(rs, NotValidated)
        uncertaintyRegions == identifyUncertaintyRegions(rs, relations, currentYear)
    IN  [built |-> TRUE,
         version |-> "1.0.0",
         validatedCitations |->
            [i \in DOMAIN validated |-> createValidatedCitation(validated[i])],
         invalidCitations |->
            [i \in DOMAIN invalid |-> createInvalidCitation(invalid[i])],
         uncertaintyRegions |-> uncertaintyRegions,
         contradictionHints |-> detectContradictions(rs, relations),
         epistemicSummary |-> createEpistemicSummary(rs, uncertaintyRegions)]

(***************************************************************************)
(* Input values: the property values a host can hand to the validator.     *)
(***************************************************************************)
Str_Blank == <<" ">>

Str_Ab == <<"A", "b">>

Str_ab_padded == <<" ", "a", "b", " ">>

Str_c == <<"c">>

Str_A == <<"A">>

Str_B == <<"B">>

Str_P == <<"P">>

Str_J == <<"J">>

Date_2024 == <<"2", "0", "2", "4">>

Date_2023 == <<"2", "0", "2", "3">>

Date_0999 == <<"0", "9", "9", "9">>

Date_1000 == <<"1", "0", "0", "0">>

Date_1750 == <<"1", "7", "5", "0">>

Date_2100 == <<"2", "1", "0", "0">>

Date_2101 == <<"2", "1", "0", "1">>

Date_2024_05 == <<"2", "0", "2", "4", "-", "0", "5">>

Date_0380_05_17 == <<"0", "3", "8", "0", "-", "0", "5", "-", "1", "7">>

Date_20x4 == <<"2", "0", "x", "4">>

Date_2024_5 == <<"2", "0", "2", "4", "-", "5">>

Url_https == <<"h", "t", "t", "p", "s", ":", "/", "/", "e", ".", "x">>

Url_none == <<"n", "o", "u", "r", "l">>

Doi_good == <<"1", "0", ".", "1", "2", "3", "4", "/", "x">>

Doi_short == <<"1", "0", ".", "1", "2", "/", "x">>

Isbn_13 == <<"9", "7", "8", "-", "3", "-", "1", "6", "-", "1", "4", "8", "4", "1", "0", "-", "0">>

Isbn_short == <<"1", "2", "3">>

Pages_range == <<"1", "2", "-", "3", "4">>

Pages_roman == <<"x", "i", "i">>

Creator(creatorType, lastName) == [creatorType |-> creatorType, lastName |-> lastName]

Titles == {None, Some(Str_Blank), Some(Str_Ab)}

CreatorLists == {None, Some(<<>>), Some(<<Creator("author", Str_A)>>),
                 Some(<<Creator("author", Str_A), Creator("editor", Str_Blank)>>)}

Dates == {None, Some(<<>>), Some(Date_2024), Some(Date_0999), Some(Date_1000),
          Some(Date_2100), Some(Date_2101), Some(Date_2024_05), Some(Date_0380_05_17),
          Some(Date_20x4), Some(Date_2024_5)}

Publishers == {None, Some(Str_P)}

PublicationTitles == {None, Some(Str_J)}

Urls == {None, Some(Url_https), Some(Url_none)}

Dois == {None, Some(Doi_good), Some(Doi_short)}

Isbns == {None, Some(Isbn_13), Some(Isbn_short)}

PagesValues == {None, Some(Pages_range), Some(Pages_roman)}

InputItemTypes == {"book", "journalArticle", "thesis", "webpage", "manuscript"}

Citations ==
    [id : {1}, itemType : InputItemTypes, title : Titles, creators : CreatorLists,
     date : Dates, publisher : Publishers, publicationTitle : PublicationTitles,
     url : Urls, DOI : Dois, ISBN : Isbns, pages : PagesValues]

StrictPartial == [EmptyPartial EXCEPT !.strictness = Some("strict")]

InputPartials == {EmptyPartial, StrictPartial}

(* an individually overridden handoff threshold *)
ThresholdPartial == [EmptyPartial EXCEPT !.fogbinderThreshold = Some(95)]

BatchPartials == InputPartials \cup {ThresholdPartial}

(***************************************************************************)
(* Validation of one citation: validator.validate(citation).               *)
(***************************************************************************)
Init ==
    /\ request \in {Request("constructor", p) : p \in InputPartials}
    /\ config = Constructor(request.partial)
    /\ citations \in {<<c>> : c \in Citations}
    /\ relationships = None
    /\ results = <<>>
    /\ payload = NoPayload
    /\ pc = "ready"
    /\ now = 2026

Validate ==
    /\ pc = "ready"
    /\ Len(citations) = 1
    /\ \E r \in {validate(citations[1], config)} :
           /\ results' = IF r.threw THEN <<>> ELSE <<r>>
           /\ citations' = IF r.threw THEN citations ELSE <<r.citation>>
           /\ pc' = IF r.threw THEN "threw" ELSE "validated"
    /\ UNCHANGED <<config, request, relationships, payload, now>>

Next == Validate

Spec == Init /\ [][Next]_vars

(***************************************************************************)
(* Validation of a batch and the handoff:                                  *)
(*   results = validator.validateBatch(citations)                          *)
(*   payload = manager.createPayload(results, relationships)               *)
(***************************************************************************)
Book(title, creators, date, publisher, doi, isbn, url) ==
    [id |-> 0, itemType |-> "book", title |-> title, creators |-> creators,
     date |-> date, publisher |-> publisher, publicationTitle |-> None,
     url |-> url, DOI |-> doi, ISBN |-> isbn, pages |-> None]

AuthorA == Creator("author", Str_A)

AuthorB == Creator("author", Str_B)

TranslatorB == Creator("translator", Str_B)

BatchCitations ==
    { Book(Some(Str_Ab), Some(<<AuthorA>>), Some(Date_2024), Some(Str_P),
           Some(Doi_good), None, None),
      Book(Some(Str_ab_padded), Some(<<AuthorB>>), Some(Date_2024), Some(Str_P),
           None, None, None),
      Book(Some(Str_Ab), Some(<<AuthorA>>), Some(Date_2023), Some(Str_P),
           Some(Doi_good), None, None),
      Book(Some(Str_Ab), Some(<<AuthorA, TranslatorB>>), Some(Date_0380_05_17),
           Some(Str_P), Some(Doi_good), Some(Isbn_13), None),
      Book(Some(Str_c), Some(<<>>), None, None, None, None, None),
      Book(Some(Str_c), Some(<<AuthorA>>), Some(Date_1750), Some(Str_P),
           None, None, Some(Url_https)),
      Book(Some(Str_c), Some(<<AuthorB>>), Some(Date_20x4), Some(Str_P),
           None, Some(Isbn_short), None),
      Book(None, Some(<<AuthorA>>), Some(Date_2024), Some(Str_P),
           None, Some(Isbn_13), None),
      Book(Some(Str_c), None, Some(Date_2024), Some(Str_P), Some(Doi_good), None, None),
      [Book(Some(Str_c), Some(<<AuthorB>>), None, None, None, None, None)
         EXCEPT !.itemType = "manuscript"] }

WithIds(bodies) == [i \in DOMAIN bodies |-> [bodies[i] EXCEPT !.id = i]]

Batches ==
    UNION {{WithIds(b) : b \in [1..n -> BatchCitations]} : n \in 0..MaxBatch}

Relation(source, target, confidence, isContradiction) ==
    [type |-> IF isContradiction THEN "contradicts" ELSE "cites",
     source |-> source, target |-> target, confidence |-> confidence,
     isContradiction |-> isContradiction]

InputRelations ==
    {None,
     Some(<<Relation(1, 2, 90, TRUE), Relation(2, 1, 50, FALSE)>>),
     Some(<<Relation(2, 1, 150, TRUE)>>)}

RECURSIVE validateBatch(_, _)
validateBatch(cs, cfg) ==
    IF cs = <<>> THEN <<>>
    ELSE <<validate(cs[1], cfg)>> \o validateBatch(Tail(cs), cfg)

InitBatch ==
    /\ request \in {Request("constructor", p) : p \in BatchPartials}
    /\ config = Constructor(request.partial)
    /\ citations \in Batches
    /\ relationships \in InputRelations
    /\ results = <<>>
    /\ payload = NoPayload
    /\ pc = "ready"
    /\ now = 2026

ValidateBatch ==
    /\ pc = "ready"
    /\ \E rs \in {validateBatch(citations, config)} :
           IF \E i \in DOMAIN rs : rs[i].threw
           THEN /\ pc' = "threw"
                /\ results' = <<>>
                /\ citations' = citations
           ELSE /\ pc' = "validated"
                /\ results' = rs
                /\ citations' = [i \in DOMAIN rs |-> rs[i].citation]
    /\ UNCHANGED <<config, request, relationships, payload, now>>

CreatePayload ==
    /\ pc = "validated"
    /\ IF detectContradictionsThrows(results)
       THEN /\ pc' = "payloadThrew"
            /\ payload' = payload
       ELSE /\ pc' = "exported"
            /\ payload' = createPayload(results, relationships, now)
    /\ UNCHANGED <<config, request, citations, relationships, results, now>>

NextBatch == ValidateBatch \/ CreatePayload

SpecBatch == InitBatch /\ [][NextBatch]_vars

(***************************************************************************)
(* Adding a DOI: the pair (r, r with a well-formed DOI) validated by one   *)
(* validator.                                                              *)
(***************************************************************************)
WithDoi(c) == [c EXCEPT !.id = 2, !.DOI = Some(Doi_good)]

InitDoi ==
    /\ request \in {Request("constructor", p) : p \in InputPartials}
    /\ config = Constructor(request.partial)
    /\ citations \in {<<c, WithDoi(c)>> : c \in {d \in Citations : d.DOI = None}}
    /\ relationships = None
    /\ results = <<>>
    /\ payload = NoPayload
    /\ pc = "ready"
    /\ now = 2026

NextDoi == ValidateBatch

SpecDoi == InitDoi /\ [][NextDoi]_vars

(***************************************************************************)
(* Configuration: new TractarianValidator(partial), then any number of     *)
(* validator.setConfig(partial), then validator.validate(citation).        *)
(***************************************************************************)
ConfigPartials ==
    [strictness : {None, Some("strict"), Some("standard"), Some("lenient")},
     fogbinderThreshold : {None, Some(95)},
     requirePersistentIdentifiers : {None, Some(FALSE), Some(TRUE)},
     minimumValidCertainty : {None, Some(60)}]

ConfigCitations ==
    { Book(Some(Str_c), Some(<<AuthorA>>), Some(Date_2024), Some(Str_P),
           None, None, None),
      Book(Some(Str_c), Some(<<AuthorA>>), Some(Date_0999), Some(Str_P),
           None, None, None),
      Book(Some(Str_c), Some(<<AuthorA>>), Some(Date_2024), Some(Str_P),
           None, None, Some(Url_https)),
      Book(Some(Str_c), Some(<<AuthorA>>), Some(Date_2024), Some(Str_P),
           None, Some(Isbn_13), None),
      Book(Some(Str_c), Some(<<AuthorA>>), Some(Date_2024), Some(Str_P),
           Some(Doi_short), None, None),
      [Book(Some(Str_c), Some(<<AuthorB>>), None, None, None, None, None)
         EXCEPT !.itemType = "manuscript"] }

InitConfig ==
    /\ request \in {Request("constructor", p) : p \in ConfigPartials}
    /\ config = Constructor(request.partial)
    /\ citations \in {WithIds(<<c>>) : c \in ConfigCitations}
    /\ relationships = None
    /\ results = <<>>
    /\ payload = NoPayload
    /\ pc = "ready"
    /\ now = 2026

SetConfig ==
    /\ pc = "ready"
    /\ \E partial \in ConfigPartials :
          /\ config' = setConfig(config, partial)
          /\ request' = Request("setConfig", partial)
    /\ UNCHANGED <<citations, relationships, results, payload, pc, now>>

NextConfig == SetConfig \/ Validate

SpecConfig == InitConfig /\ [][NextConfig]_vars

(***************************************************************************)
(* Handoff of a single validated record under any configuration:           *)
(*   validator.setConfig(partial) ...; r = validator.validate(citation);   *)
(*   payload = manager.createPayload([r])                                  *)
(***************************************************************************)
NextExport == SetConfig \/ Validate \/ CreatePayload

SpecExport == InitConfig /\ [][NextExport]_vars

(***************************************************************************)
(* Summary of a large batch: validCount complete books with a DOI followed *)
(* by otherCount books without creators, validated and handed off.         *)
(***************************************************************************)
CompleteBook ==
    Book(Some(Str_Ab), Some(<<AuthorA>>), Some(Date_2024), Some(Str_P),
         Some(Doi_good), None, None)

BareBook == Book(Some(Str_c), Some(<<>>), None, None, None, None, None)

MixedBatch(validCount, otherCount) ==
    WithIds([i \in 1..(validCount + otherCount) |->
                IF i <= validCount THEN CompleteBook ELSE BareBook])

SummaryBatches ==
    UNION {{MixedBatch(v, n - v) : v \in 0..n} : n \in 0..MaxSummaryBatch}

InitSummary ==
    /\ request = Request("constructor", EmptyPartial)
    /\ config = Constructor(request.partial)
    /\ citations \in SummaryBatches
    /\ relationships = None
    /\ results = <<>>
    /\ payload = NoPayload
    /\ pc = "ready"
    /\ now = 2026

NextSummary == ValidateBatch \/ CreatePayload

SpecSummary == InitSummary /\ [][NextSummary]_vars

(***************************************************************************)
(* Vocabulary of the properties.                                           *)
(***************************************************************************)
Returned == pc = "validated"

Called == pc \in {"validated", "threw"}

NoErrors(issues) == \A i \in DOMAIN issues : issues[i].severity # "error"

RequiredSet(c) == Range(REQUIRED_FIELDS(c.itemType))

AllRequiredPresent(c) == \A f \in RequiredSet(c) : ~IsMissing(c, f)

CreatorsWellFormed(c) ==
    IsPresent(c.creators) =>
        \A i \in DOMAIN c.creators[1] : Len(trim(c.creators[1][i].lastName)) > 0

IsbnWellFormed(s) ==
    LET clean == stripHyphensSpaces(s)
    IN  Len(clean) \in {10, 13} /\ AllDigits(clean)

(* every present field is well-formed: valid date format, valid URL, etc. *)
PresentFieldsWellFormed(c) ==
    /\ Truthy("title", c.title) => Len(trim(c.title[1])) > 0
    /\ CreatorsWellFormed(c)
    /\ Truthy("date", c.date) => datePattern(c.date[1])
    /\ Truthy("url", c.url) => urlParses(c.url[1])
    /\ Truthy("DOI", c.DOI) => doiPattern(c.DOI[1])
    /\ Truthy("ISBN", c.ISBN) => IsbnWellFormed(c.ISBN[1])
    /\ Truthy("pages", c.pages) => pagesPattern(stripSpaces(c.pages[1]))

YearOfDate(c) == parseInt(Prefix(c.date[1], 4))

UsualYear(c) ==
    Truthy("date", c.date) => (YearOfDate(c) >= 1000 /\ YearOfDate(c) <= 2100)

HasCreator(c) == IsPresent(c.creators) /\ Len(c.creators[1]) > 0

HasIdentifier(c) ==
    Truthy("DOI", c.DOI) \/ Truthy("ISBN", c.ISBN) \/ Truthy("url", c.url)

IdentifiersNotDemanded(c) ==
    HasIdentifier(c) \/ c.itemType = "manuscript" \/ ~config.requirePersistentIdentifiers

ValidWithoutErrors ==
    /\ Returned
    /\ results[1].state = "VALID"
    /\ NoErrors(results[1].issues)

C2_ScoresInUnitInterval ==
    \A i \in DOMAIN results :
        LET cert == results[i].certainty
        IN  /\ cert.score \in 0..100
            /\ cert.factors.structural \in 0..100
            /\ cert.factors.consistency \in 0..100
            /\ cert.factors.referential \in 0..100

C2_Witness ==
    /\ Returned
    /\ Truthy("DOI", citations[1].DOI)
    /\ Truthy("ISBN", citations[1].ISBN)
    /\ Truthy("url", citations[1].url)
    /\ results[1].certainty.factors.referential = 100
    /\ results[1].certainty.factors.structural < 100

(***************************************************************************)
(* C3: validateBatch on n records returns n results, the i-th being the    *)
(* validation result of the i-th record.                                   *)
(***************************************************************************)
C3_BatchPreservesOrderAndLength ==
    pc # "ready" =>
        /\ Len(results) = Len(citations)
        /\ \A i \in DOMAIN citations :
              /\ results[i].citation = citations[i]
              /\ results[i] = validate(citations[i], config)

(***************************************************************************)
(* C5: adding a well-formed DOI to a record without one lowers neither the *)
(* referential factor nor the overall score.                               *)
(***************************************************************************)
C5_DoiNeverLowersScore ==
    (Returned /\ Len(results) = 2) =>
        /\ results[2].certainty.factors.referential
              >= results[1].certainty.factors.referential
        /\ results[2].certainty.score >= results[1].certainty.score

C5_Witness ==
    /\ Returned
    /\ Len(results) = 2
    /\ results[2].certainty.factors.consistency
          < results[1].certainty.factors.consistency
    /\ results[2].certainty.score > results[1].certainty.score

(***************************************************************************)
(* C6: validate never throws; it always returns a result.                  *)
(***************************************************************************)
C6_ValidateNeverThrows == pc # "threw"

(***************************************************************************)
(* C7: a result in state VALID carries no error-severity issue.            *)
(***************************************************************************)
C7_ValidHasNoError ==
    \A i \in DOMAIN results :
        results[i].state = "VALID" => NoErrors(results[i].issues)

C7_Witness ==
    /\ Returned
    /\ results[1].state = "VALID"
    /\ Len(results[1].issues) >= 2

(***************************************************************************)
(* C8: every required field that is absent (or an empty array) is reported *)
(* by an error-severity issue on that field, and a record whose only       *)
(* errors are missing-field errors is INCOMPLETE.                          *)
(***************************************************************************)
IsMissingFieldError(issue) ==
    /\ issue.severity = "error"
    /\ issue.message \in {RequiredMessage(f) :
                            f \in {"title", "creators", "publisher",
                                   "publicationTitle", "date", "url"}}

C8_MissingRequiredIsError ==
    Called =>
        /\ \A f \in RequiredSet(citations[1]) :
              IsMissing(citations[1], f) =>
                  /\ Returned
                  /\ \E i \in DOMAIN results[1].issues :
                        /\ results[1].issues[i].severity = "error"
                        /\ results[1].issues[i].field = f
        /\ (/\ Returned
            /\ ~NoErrors(results[1].issues)
            /\ \A i \in DOMAIN results[1].issues :
                  results[1].issues[i].severity = "error"
                      => IsMissingFieldError(results[1].issues[i]))
              => results[1].state = "INCOMPLETE"

(***************************************************************************)
(* C9: two batch records whose titles agree after case folding and         *)
(* trimming and whose authors' last names differ get an authorship hint    *)
(* naming them, with confidence 0.7 and requiresSemanticAnalysis = true,   *)
(* in the payload createPayload returns.                                   *)
(***************************************************************************)
AuthorLastNames(c) ==
    LET IsAuthor(cr) == cr.creatorType = "author"
        authors == SelectSeq(c.creators[1], IsAuthor)
    IN  [i \in DOMAIN authors |-> authors[i].lastName]

SameTitleDifferentAuthors(a, b) ==
    /\ IsPresent(a.title) /\ IsPresent(b.title)
    /\ IsPresent(a.creators) /\ IsPresent(b.creators)
    /\ trim(toLowerCase(a.title[1])) = trim(toLowerCase(b.title[1]))
    /\ AuthorLastNames(a) # AuthorLastNames(b)

HasAuthorshipHint(a, b) ==
    \E h \in DOMAIN payload.contradictionHints :
        LET hint == payload.contradictionHints[h]
        IN  /\ {hint.citationA, hint.citationB} = {a.id, b.id}
            /\ hint.type = "authorship"
            /\ hint.confidence = 70
            /\ hint.requiresSemanticAnalysis

C9_AuthorshipHint ==
    pc \in {"exported", "payloadThrew"} =>
        \A i, j \in DOMAIN results :
            (i < j /\ SameTitleDifferentAuthors(results[i].citation, results[j].citation))
                => (pc = "exported"
                    /\ HasAuthorshipHint(results[i].citation, results[j].citation))

(***************************************************************************)
(* C10: a date in the form YYYY, YYYY-MM or YYYY-MM-DD whose year is       *)
(* outside [1000, 2100] gets a warning on field date that requires         *)
(* uncertainty navigation and no error on the date; with the year inside   *)
(* the range there is no date issue at all.                                *)
(***************************************************************************)
DateIssuesOf(r) ==
    {i \in DOMAIN r.issues : r.issues[i].field = "date"}

C10_UnusualYearWarning ==
    (/\ Called
     /\ Truthy("date", citations[1].date)
     /\ datePattern(citations[1].date[1]))
        => /\ Returned
           /\ IF YearOfDate(citations[1]) < 1000 \/ YearOfDate(citations[1]) > 2100
              THEN /\ \E i \in DateIssuesOf(results[1]) :
                         /\ results[1].issues[i].severity = "warning"
                         /\ results[1].issues[i].requiresUncertaintyNavigation
                   /\ \A i \in DateIssuesOf(results[1]) :
                         results[1].issues[i].severity # "error"
              ELSE DateIssuesOf(results[1]) = {}

(***************************************************************************)
(* C11: for a non-empty batch of fully complete records (all required      *)
(* fields present, all present fields well-formed) that each carry a DOI,  *)
(* validateBatch followed by createPayload yields a summary whose          *)
(* recommendation is the "well-structured" one.                            *)
(***************************************************************************)
CompleteWithDoi(c) ==
    /\ AllRequiredPresent(c)
    /\ PresentFieldsWellFormed(c)
    /\ Truthy("DOI", c.DOI)

C11_CompleteBatchWellStructured ==
    (/\ Len(citations) > 0
     /\ \A i \in DOMAIN citations : CompleteWithDoi(citations[i]))
        => /\ pc \notin {"threw", "payloadThrew"}
           /\ pc = "exported"
                 => payload.epistemicSummary.recommendation = "well-structured"

(***************************************************************************)
(* C12: in every payload of createPayload each uncertainty level, each     *)
(* hint confidence (hints built from relations included), each validated   *)
(* entry's certainty and the summary's overallCertainty lies in [0, 1]     *)
(* (0..100 hundredths).                                                    *)
(***************************************************************************)
C12_PayloadValuesInUnitInterval ==
    pc = "exported" =>
        /\ \A i \in DOMAIN payload.uncertaintyRegions :
              payload.uncertaintyRegions[i].uncertaintyLevel \in 0..100
        /\ \A i \in DOMAIN payload.contradictionHints :
              payload.contradictionHints[i].confidence \in 0..100
        /\ \A i \in DOMAIN payload.validatedCitations :
              payload.validatedCitations[i].certainty \in 0..100
        /\ payload.epistemicSummary.overallCertainty \in 0..100

(***************************************************************************)
(* C13: validate, validateBatch and createPayload never mutate their       *)
(* inputs: the records keep their values across validateBatch, the results *)
(* and the relations keep theirs across createPayload, and the entries of  *)
(* the payload hold the input results and records as they were.            *)
(***************************************************************************)
PayloadEntriesHoldInputs ==
    /\ \A i \in DOMAIN payload.validatedCitations :
          LET entry == payload.validatedCitations[i]
          IN  /\ entry.validationResult \in Range(results)
              /\ entry.citation = entry.validationResult.citation
              /\ entry.citation \in Range(citations)
    /\ \A i \in DOMAIN payload.invalidCitations :
          LET entry == payload.invalidCitations[i]
          IN  /\ entry.validationResult \in Range(results)
              /\ entry.citation = entry.validationResult.citation
              /\ entry.citation \in Range(citations)

C13_InputsNotMutated ==
    /\ [][/\ citations' = citations
          /\ relationships' = relationships
          /\ pc = "validated" => results' = results]_vars
    /\ [](pc = "exported" => PayloadEntriesHoldInputs)

C13_Witness ==
    /\ pc = "exported"
    /\ IsPresent(relationships)
    /\ Len(payload.validatedCitations) > 0
    /\ Len(payload.invalidCitations) > 0
    /\ \E i \in DOMAIN citations :
          /\ IsPresent(citations[i].title)
          /\ trim(citations[i].title[1]) # citations[i].title[1]

(***************************************************************************)
(* C14: createPayload puts a result in validatedCitations exactly when its *)
(* state is VALID and its score is at least the fogbinderThreshold of the  *)
(* configuration it was validated under, and in invalidCitations           *)
(* otherwise; each result is in exactly one list, in input order.          *)
(***************************************************************************)
MeetsExplorationThreshold(r) ==
    r.state = "VALID" /\ r.certainty.score >= config.fogbinderThreshold

BelowExplorationThreshold(r) == ~MeetsExplorationThreshold(r)

EntryResults(entries) == [i \in DOMAIN entries |-> entries[i].validationResult]

C14_PartitionByExplorationThreshold ==
    pc = "exported" =>
        /\ EntryResults(payload.validatedCitations)
              = SelectSeq(results, MeetsExplorationThreshold)
        /\ EntryResults(payload.invalidCitations)
              = SelectSeq(results, BelowExplorationThreshold)

(***************************************************************************)
(* C15: a result with an error-severity issue is INCONSISTENT when one of  *)
(* its errors reports a format problem (invalid date, invalid URL) and     *)
(* INCOMPLETE when all its errors report something missing; it is never    *)
(* VALID or UNCERTAIN, whatever its score and exploration flags.           *)
(***************************************************************************)
IsFormatError(issue) ==
    /\ issue.severity = "error"
    /\ issue.field \in {"date", "url"}
    /\ issue.message # RequiredMessage(issue.field)

HasFormatError(issues) == \E i \in DOMAIN issues : IsFormatError(issues[i])

C15_ErrorsDecideState ==
    \A i \in DOMAIN results :
        ~NoErrors(results[i].issues) =>
            results[i].state = IF HasFormatError(results[i].issues)
                               THEN "INCONSISTENT" ELSE "INCOMPLETE"

C15_Witness ==
    /\ Returned
    /\ results[1].state = "INCONSISTENT"
    /\ \E i \in DOMAIN results[1].issues :
          IsError(results[1].issues[i]) /\ ~IsFormatError(results[1].issues[i])
    /\ \E i \in DOMAIN results[1].issues : RequiresNavigation(results[1].issues[i])

(***************************************************************************)
(* C16: a result without error-severity issue is UNCERTAIN exactly when    *)
(* some issue requires uncertainty navigation and the score is below the   *)
(* configured fogbinderThreshold; otherwise it is VALID when the score is  *)
(* at least the configured minimumValidCertainty and INCOMPLETE when not.  *)
(***************************************************************************)
HasNavigationIssue(issues) == \E i \in DOMAIN issues : RequiresNavigation(issues[i])

C16_NoErrorStateByScore ==
    \A i \in DOMAIN results :
        NoErrors(results[i].issues) =>
            results[i].state =
                IF /\ HasNavigationIssue(results[i].issues)
                   /\ results[i].certainty.score < config.fogbinderThreshold
                THEN "UNCERTAIN"
                ELSE IF results[i].certainty.score >= config.minimumValidCertainty
                THEN "VALID" ELSE "INCOMPLETE"

(***************************************************************************)
(* C17: a record without DOI, ISBN and URL that is not a manuscript gets   *)
(* exactly one issue on field identifiers: error with the exploration flag *)
(* under strict, warning without the flag under standard, info without the *)
(* flag under lenient.  A manuscript, or a record with one of the three    *)
(* identifiers, gets no identifiers issue.                                 *)
(***************************************************************************)
IsIdentifiersIssue(issue) == issue.field = "identifiers"

SeverityOfStrictness(strictness) ==
    CASE strictness = "strict"   -> "error"
      [] strictness = "standard" -> "warning"
      [] strictness = "lenient"  -> "info"

C17_IdentifiersIssueByStrictness ==
    Called =>
        LET c == citations[1]
        IN  IF ~HasIdentifier(c) /\ c.itemType # "manuscript"
            THEN /\ Returned
                 /\ LET found == SelectSeq(results[1].issues, IsIdentifiersIssue)
                    IN  /\ Len(found) = 1
                        /\ found[1].severity = SeverityOfStrictness(config.strictness)
                        /\ found[1].requiresUncertaintyNavigation
                              = (config.strictness = "strict")
            ELSE Returned =>
                    SelectSeq(results[1].issues, IsIdentifiersIssue) = <<>>

(***************************************************************************)
(* C18: getConfig() after the constructor and any setConfig calls: a field *)
(* given in the most recent call has the given value; a field not given    *)
(* takes the preset value of the strictness level in the constructor and   *)
(* in a setConfig that changes strictness, and keeps its previous value in *)
(* a setConfig that does not change strictness.                            *)
(***************************************************************************)
PresetValue(strictness, field) ==
    IF field = "strictness" THEN strictness
    ELSE STRICTNESS_PRESETS[strictness][field][1]

GivenFieldsWin(cfg, partial) ==
    \A f \in ConfigFields : IsPresent(partial[f]) => getConfig(cfg)[f] = partial[f][1]

ConstructorResolved ==
    request.call = "constructor" =>
        LET partial == request.partial
            level   == IF IsPresent(partial.strictness) THEN partial.strictness[1]
                       ELSE "standard"
        IN  /\ GivenFieldsWin(config, partial)
            /\ \A f \in ConfigFields :
                  ~IsPresent(partial[f]) => getConfig(config)[f] = PresetValue(level, f)

SetConfigResolved ==
    (pc' = "ready" /\ request'.call = "setConfig") =>
        LET partial == request'.partial
            changes == /\ IsPresent(partial.strictness)
                       /\ partial.strictness[1] # getConfig(config).strictness
        IN  /\ GivenFieldsWin(config', partial)
            /\ \A f \in ConfigFields :
                  ~IsPresent(partial[f]) =>
                      getConfig(config')[f] =
                          IF changes THEN PresetValue(partial.strictness[1], f)
                          ELSE getConfig(config)[f]

C18_ConfigResolution == []ConstructorResolved /\ [][SetConfigResolved]_vars

C18_Witness ==
    /\ request.call = "setConfig"
    /\ request.partial.strictness = Some("strict")
    /\ request.partial.requirePersistentIdentifiers = Some(FALSE)
    /\ request.partial.fogbinderThreshold = None
    /\ getConfig(config).requirePersistentIdentifiers = FALSE
    /\ getConfig(config).fogbinderThreshold = 80
    /\ getConfig(config).minimumValidCertainty = 60

(***************************************************************************)
(* C19: in a group of batch records sharing a normalized title, if the     *)
(* primary authors (first creator with the author role) have more than one *)
(* distinct last name, every pair of the group gets an authorship hint     *)
(* with confidence 0.7 and requiresSemanticAnalysis = true; if they all    *)
(* have the same last name the group gets no authorship hint.              *)
(***************************************************************************)
HasTitleAndCreators(c) == IsPresent(c.title) /\ IsPresent(c.creators)

NormalizedTitle(c) == trim(toLowerCase(c.title[1]))

TitleGroup(c) ==
    {k \in DOMAIN results :
        /\ HasTitleAndCreators(results[k].citation)
        /\ NormalizedTitle(results[k].citation) = NormalizedTitle(c)}

PrimaryAuthors(group) ==
    {AuthorLastNames(results[k].citation)[1] :
        k \in {m \in group : AuthorLastNames(results[m].citation) # <<>>}}

HintBetween(a, b, type) ==
    {h \in DOMAIN payload.contradictionHints :
        /\ payload.contradictionHints[h].type = type
        /\ {payload.contradictionHints[h].citationA,
            payload.contradictionHints[h].citationB} = {a.id, b.id}}

C19_AuthorshipHintsByPrimaryAuthor ==
    pc \in {"exported", "payloadThrew"} =>
        \A i, j \in DOMAIN results :
            LET a == results[i].citation
                b == results[j].citation
            IN  (/\ i < j
                 /\ HasTitleAndCreators(a) /\ HasTitleAndCreators(b)
                 /\ NormalizedTitle(a) = NormalizedTitle(b))
                    => /\ pc = "exported"
                       /\ IF Cardinality(PrimaryAuthors(TitleGroup(a))) > 1
                          THEN HasAuthorshipHint(a, b)
                          ELSE HintBetween(a, b, "authorship") = {}

(***************************************************************************)
(* C20: in a group of batch records sharing a normalized title, if the     *)
(* publication years are not all equal, every pair of the group gets a     *)
(* temporal hint with confidence 0.8 and requiresSemanticAnalysis = false, *)
(* whatever the authors; if the years are all equal the group gets none.   *)
(***************************************************************************)
PublicationYears(group) ==
    {Prefix(results[k].citation.date[1], 4) :
        k \in {m \in group : Truthy("date", results[m].citation.date)}}

HasTemporalHint(a, b) ==
    \E h \in HintBetween(a, b, "temporal") :
        /\ payload.contradictionHints[h].confidence = 80
        /\ ~payload.contradictionHints[h].requiresSemanticAnalysis

C20_TemporalHintsByTitleGroup ==
    pc \in {"exported", "payloadThrew"} =>
        \A i, j \in DOMAIN results :
            LET a == results[i].citation
                b == results[j].citation
            IN  (/\ i < j
                 /\ HasTitleAndCreators(a) /\ HasTitleAndCreators(b)
                 /\ NormalizedTitle(a) = NormalizedTitle(b))
                    => /\ pc = "exported"
                       /\ IF Cardinality(PublicationYears(TitleGroup(a))) > 1
                          THEN HasTemporalHint(a, b)
                          ELSE HintBetween(a, b, "temporal") = {}

(***************************************************************************)
(* C21: the temporal-uncertainties region (level 0.5) of a payload holds   *)
(* exactly the ids of the batch records whose date is missing or whose     *)
(* year lies outside [1000, 2100]; it is absent when there is none.        *)
(***************************************************************************)
RegionIds(regionId) ==
    UNION {Range(payload.uncertaintyRegions[k].citationIds) :
             k \in {m \in DOMAIN payload.uncertaintyRegions :
                       payload.uncertaintyRegions[m].id = regionId}}

RegionsNamed(regionId) ==
    {k \in DOMAIN payload.uncertaintyRegions :
        payload.uncertaintyRegions[k].id = regionId}

MissingOrUnusualDate(c) == Falsy("date", c.date) \/ ~UsualYear(c)

C21_TemporalRegionMembers ==
    pc = "exported" =>
        /\ RegionIds("temporal-uncertainties")
              = {results[i].citation.id :
                   i \in {j \in DOMAIN results :
                            MissingOrUnusualDate(results[j].citation)}}
        /\ \A k \in RegionsNamed("temporal-uncertainties") :
              payload.uncertaintyRegions[k].uncertaintyLevel = 50

(***************************************************************************)
(* C22: createPayload emits the no-persistent-identifiers region (level    *)
(* 0.6) if and only if some batch record lacks DOI, ISBN and URL, its      *)
(* citationIds are then the ids of those records in batch order, and no    *)
(* region of a payload has an empty citationIds list.                      *)
(***************************************************************************)
LacksIdentifiers(r) == ~HasIdentifier(r.citation)

C22_NoIdentifierRegion ==
    pc \in {"exported", "payloadThrew"} =>
        LET lacking == SelectSeq(results, LacksIdentifiers)
            named   == RegionsNamed("no-persistent-identifiers")
        IN  /\ lacking # <<>> =>
                  /\ pc = "exported"
                  /\ Cardinality(named) = 1
                  /\ \A k \in named :
                        /\ payload.uncertaintyRegions[k].citationIds
                              = [i \in DOMAIN lacking |-> lacking[i].citation.id]
                        /\ payload.uncertaintyRegions[k].uncertaintyLevel = 60
            /\ lacking = <<>> => named = {}
            /\ \A k \in DOMAIN payload.uncertaintyRegions :
                  payload.uncertaintyRegions[k].citationIds # <<>>

(***************************************************************************)
(* C23: under the default configuration, for a batch holding a book with   *)
(* an empty creators list and no publisher, date, DOI, ISBN or URL,        *)
(* createPayload emits the low-certainty-region (level 0.8) with that      *)
(* record's id and useMysteryClustering, the record scoring below 0.4.     *)
(***************************************************************************)
IsBareBook(c) ==
    /\ c.itemType = "book"
    /\ c.creators = Some(<<>>)
    /\ c.publisher = None /\ c.date = None
    /\ c.DOI = None /\ c.ISBN = None /\ c.url = None

C23_BareBookInLowCertaintyRegion ==
    (pc \in {"exported", "payloadThrew"} /\ request.partial = EmptyPartial) =>
        \A i \in DOMAIN results :
            IsBareBook(results[i].citation) =>
                /\ pc = "exported"
                /\ results[i].certainty.score < 40
                /\ \E k \in RegionsNamed("low-certainty-region") :
                      /\ results[i].citation.id
                            \in Range(payload.uncertaintyRegions[k].citationIds)
                      /\ payload.uncertaintyRegions[k].uncertaintyLevel = 80
                      /\ "useMysteryClustering"
                            \in payload.uncertaintyRegions[k].suggestedExploration

(***************************************************************************)
(* C24: in every payload the summary agrees with the partition:            *)
(* totalCitations is the number of results, validatedCount the length of   *)
(* validatedCitations, uncertainCount the length of invalidCitations, and  *)
(* validatedCount + uncertainCount = totalCitations.                       *)
(***************************************************************************)
C24_SummaryAgreesWithPartition ==
    pc = "exported" =>
        LET summary == payload.epistemicSummary
        IN  /\ summary.totalCitations = Len(results)
            /\ summary.validatedCount = Len(payload.validatedCitations)
            /\ summary.uncertainCount = Len(payload.invalidCitations)
            /\ summary.validatedCount + summary.uncertainCount
                  = summary.totalCitations

C24_Witness ==
    /\ pc = "exported"
    /\ Len(payload.validatedCitations) > 0
    /\ Len(payload.invalidCitations) > 1
    /\ \E i \in DOMAIN results :
          results[i].state = "UNCERTAIN" /\ results[i].certainty.score >= 70

(***************************************************************************)
(* C25: the referential factor is 0.5 plus 0.3 for a present, well-formed  *)
(* DOI, 0.2 for a present, well-formed ISBN and 0.1 for a present,         *)
(* well-formed URL, capped at 1.0; a malformed identifier adds nothing.    *)
(***************************************************************************)
WellFormedBonus(c) ==
    (IF Truthy("DOI", c.DOI) /\ doiPattern(c.DOI[1]) THEN 30 ELSE 0)
    + (IF Truthy("ISBN", c.ISBN) /\ IsbnWellFormed(c.ISBN[1]) THEN 20 ELSE 0)
    + (IF Truthy("url", c.url) /\ urlParses(c.url[1]) THEN 10 ELSE 0)

C25_ReferentialCountsWellFormedOnly ==
    Returned =>
        results[1].certainty.factors.referential
            = Min(50 + WellFormedBonus(results[1].citation), 100)

(***************************************************************************)
(* C26: under the default configuration every INCOMPLETE result of         *)
(* validate has a certainty score below 0.7.                               *)
(***************************************************************************)
C26_IncompleteBelowThreshold ==
    (Returned /\ request.partial = EmptyPartial) =>
        (results[1].state = "INCOMPLETE"
            => results[1].certainty.score < CERTAINTY_THRESHOLDS.HIGH)

(***************************************************************************)
(* C28: a result with no error-severity issue has structural factor 1,     *)
(* consistency factor 1 and score >= 0.9; so every VALID and UNCERTAIN     *)
(* result scores at least 0.9 and validatedCitations is exactly the list   *)
(* of the VALID results.                                                   *)
(***************************************************************************)
IsValidResult(r) == r.state = "VALID"

C28_NoErrorScoresHigh ==
    /\ \A i \in DOMAIN results :
          /\ NoErrors(results[i].issues) =>
                /\ results[i].certainty.factors.structural = 100
                /\ results[i].certainty.factors.consistency = 100
                /\ results[i].certainty.score >= 90
          /\ results[i].state \in {"VALID", "UNCERTAIN"} =>
                results[i].certainty.score >= 90
    /\ pc = "exported" =>
          [k \in DOMAIN payload.validatedCitations |->
              payload.validatedCitations[k].validationResult]
            = SelectSeq(results, IsValidResult)

C28_Witness ==
    /\ pc = "exported"
    /\ \E i, j, k \in DOMAIN results :
          /\ results[i].state = "VALID" /\ results[i].certainty.score = 90
          /\ results[j].state = "UNCERTAIN"
          /\ results[k].state = "INCOMPLETE"

(***************************************************************************)
(* C30: every citation id in an uncertainty region's citationIds or in     *)
(* citationA / citationB of a contradiction hint of a payload is the id of *)
(* a record of the batch the payload was built from.                       *)
(***************************************************************************)
BatchIds == {results[i].citation.id : i \in DOMAIN results}

C30_PayloadRefersToBatchOnly ==
    pc = "exported" =>
        /\ \A k \in DOMAIN payload.uncertaintyRegions :
              Range(payload.uncertaintyRegions[k].citationIds) \subseteq BatchIds
        /\ \A h \in DOMAIN payload.contradictionHints :
              /\ payload.contradictionHints[h].citationA \in BatchIds
              /\ payload.contradictionHints[h].citationB \in BatchIds

(***************************************************************************)
(* C29: for every invalidCitations entry whose result is INCOMPLETE or     *)
(* INCONSISTENT, the message appended to reason is the message of an       *)
(* error-severity issue of that result, under every configuration.         *)
(***************************************************************************)
ErrorMessages(r) ==
    {r.issues[i].message : i \in {j \in DOMAIN r.issues : IsError(r.issues[j])}}

C29_ReasonNamesAnError ==
    pc = "exported" =>
        \A k \in DOMAIN payload.invalidCitations :
            LET entry == payload.invalidCitations[k]
            IN  entry.validationResult.state \in {"INCOMPLETE", "INCONSISTENT"}
                    => /\ IsPresent(entry.reason.message)
                       /\ entry.reason.message[1]
                             \in ErrorMessages(entry.validationResult)

(***************************************************************************)
(* C27: the recommendation of a summary is the band of the overall         *)
(* certainty reported in the same summary: well-structured exactly when    *)
(* it is >= 0.8, needs improvement when 0.5 <= it < 0.8, requires          *)
(* significant work when it is < 0.5, for batches of any size.             *)
(***************************************************************************)
BandOf(overallCertainty) ==
    IF overallCertainty >= 80 THEN "well-structured"
    ELSE IF overallCertainty >= 50 THEN "needs improvement"
    ELSE "requires significant work"

C27_RecommendationIsBandOfReported ==
    pc = "exported" =>
        payload.epistemicSummary.recommendation
            = BandOf(payload.epistemicSummary.overallCertainty)

====
